---- MODULE Spec2Model ----
(***************************************************************************)
(* virtualHDM: a local HTTP relay (src/main.go).  Each of nine routes is   *)
(* served by handleRequest, which validates the JSON body, resolves the    *)
(* merchant's certificate/key pair in certs/, uploads the pair with curl   *)
(* and then issues the operation's own curl call.                          *)
(*                                                                         *)
(* A request handler is a goroutine of net/http; its position is pc[r].    *)
(* Handlers share nothing but the credential store (the certs directory),  *)
(* which the file system lets an operator change at any time.              *)
(***************************************************************************)
EXTENDS Integers, Sequences, FiniteSets, TLC

VARIABLES
    store,      \* the files currently in certs/
    changes,    \* how many times the store was changed from outside
    pc,         \* pc[r]: position of handler r
    rq,         \* rq[r]: the request being served (method, path, body)
    jsonData,   \* jsonData[r]: the decoded body (map[string]any)
    certFiles,  \* certFiles[r]: result of the first Glob
    keyFiles,   \* keyFiles[r]: result of the second Glob
    resp,       \* resp[r]: the responses written to the ResponseWriter
    log         \* log[r]: what the handler did so far, in order

vars == <<store, changes, pc, rq, jsonData, certFiles, keyFiles, resp, log>>

----------------------------------------------------------------------------
(* Bounds of the model *)

\* longest crn string enumerated over CrnAlphabet
MaxCrnLen == 2
\* how many times the certs directory is changed while requests run
MaxStoreChanges == 1

\* the handlers that may run at the same time
Reqs == {"r1", "r2"}

----------------------------------------------------------------------------
(* Strings are sequences of one-character strings, so that prefix matching *)
(* and integer parsing are computed character by character.                *)

Digits == {"0", "1", "2", "3", "4", "5", "6", "7", "8", "9"}

DigitVal ==
    [c \in Digits |->
        CASE c = "0" -> 0 [] c = "1" -> 1 [] c = "2" -> 2 [] c = "3" -> 3
          [] c = "4" -> 4 [] c = "5" -> 5 [] c = "6" -> 6 [] c = "7" -> 7
          [] c = "8" -> 8 [] c = "9" -> 9]

\* byte values of the characters used, for the order of Readdirnames' sort
CharOrd(c) ==
    CASE c = " " -> 32 [] c = "+" -> 43 [] c = "-" -> 45
      [] c \in Digits -> 48 + DigitVal[c]
      [] c = "a" -> 97 [] c = "b" -> 98
      [] OTHER -> 127

RECURSIVE StrLess(_, _)
StrLess(s, t) ==
    IF Len(s) = 0 THEN Len(t) > 0
    ELSE IF Len(t) = 0 THEN FALSE
    ELSE IF s[1] # t[1] THEN CharOrd(s[1]) < CharOrd(t[1])
    ELSE StrLess(Tail(s), Tail(t))

IsPrefix(p, s) == Len(p) <= Len(s) /\ SubSeq(s, 1, Len(p)) = p

RECURSIVE StripZeros(_)
StripZeros(d) == IF Len(d) > 1 /\ d[1] = "0" THEN StripZeros(Tail(d)) ELSE d

\* 2^63, the magnitude at which a 64-bit int overflows
IntCutoff ==
    <<"9","2","2","3","3","7","2","0","3","6","8","5","4","7","7","5","8","0","8">>

\* magnitude d (decimal digits) < magnitude e
MagLess(d, e) ==
    LET a == StripZeros(d)
        b == StripZeros(e)
    IN  \/ Len(a) < Len(b)
        \/ Len(a) = Len(b) /\ StrLess(a, b)

\* strconv.Atoi(s) returns an error
AtoiErr(s) ==
    LET signed == Len(s) > 0 /\ s[1] \in {"+", "-"}
        neg    == Len(s) > 0 /\ s[1] = "-"
        d      == IF signed THEN Tail(s) ELSE s
    IN  \/ Len(d) = 0
        \/ \E i \in 1..Len(d) : d[i] \notin Digits
        \/ (~neg) /\ ~MagLess(d, IntCutoff)
        \/ neg /\ MagLess(IntCutoff, d)

----------------------------------------------------------------------------
(* JSON values as encoding/json decodes them into `any` *)

JNull    == [t |-> "null"]
JBool    == [t |-> "bool"]
JArr     == [t |-> "array"]
JNum(s)  == [t |-> "number", s |-> s]
JStr(s)  == [t |-> "string", s |-> s]
JObj(m)  == [t |-> "object", m |-> m]

\* the empty map[string]any
EmptyMap == <<>>

\* json.Unmarshal(body, &jsonData) with jsonData a nil map[string]any:
\* an object fills the map, null leaves it nil, anything else is an error
Unmarshal(body) ==
    IF body.k # "json" THEN [err |-> TRUE, m |-> EmptyMap]
    ELSE IF body.v.t = "object" THEN [err |-> FALSE, m |-> body.v.m]
    ELSE IF body.v.t = "null" THEN [err |-> FALSE, m |-> EmptyMap]
    ELSE [err |-> TRUE, m |-> EmptyMap]

\* a type check that lets a JSON number through as well
IsStringLoose(v) == v.t \in {"string", "number"}

\* crnInterface.(string)
IsString(v) == v.t = "string"

\* fmt.Sprintf / fmt.Errorf: the format literal and its operands
Msg(f, a) == [fmt |-> f, args |-> a]
NoErr == Msg("", <<>>)

\* http.Error(w, msg, code): one WriteHeader(code) and the message as body
HttpError(msg, code) == [status |-> code, body |-> msg]

----------------------------------------------------------------------------
(* The endpoint table and the routes *)

EndpointKeys ==
    {"checkConnection", "activate", "configureDepartments", "getGoodList",
     "print", "printCopy", "getReturnedReceiptInfo", "printReturnReceipt",
     "uploadCertificate"}

\* var endpoints = map[string]string{...}
endpoints == [k \in EndpointKeys |-> k]

baseURL == "https://ecrm.taxservice.am/taxsystem-rs-vcr/api/v1.0/"

\* main: http.HandleFunc(path, ... handleRequest(w, r, key))
Routes ==
    ("/checkConnection" :> "checkConnection")
    @@ ("/activate" :> "activate")
    @@ ("/configureDepartments" :> "configureDepartments")
    @@ ("/getGoodList" :> "getGoodList")
    @@ ("/print" :> "print")
    @@ ("/printCopy" :> "printCopy")
    @@ ("/getReturnedReceiptInfo" :> "getReturnedReceiptInfo")
    @@ ("/printReturnReceipt" :> "printReturnReceipt")
    @@ ("/uploadCertificate" :> "uploadCertificate")

\* the operation identifier the router hands to handleRequest
RouteKey(path) == Routes[path]

----------------------------------------------------------------------------
(* handleRequest up to the call of runCurlCommand *)

\* a method check that turns away GET alone
MethodRejectedGetOnly(method) == method = "GET"

\* r.Method != http.MethodPost
MethodRejected(method) == method # "POST"

\* the 405 payload, as json.Marshal writes it
MethodNotAllowedBody(req) ==
    [timestamp |-> "now",
     status    |-> 405,
     error     |-> "Method Not Allowed",
     message   |-> <<"Request method '", "GET", "' not supported">>,
     path      |-> req.path]

\* the crn checks of handleRequest without the strconv.Atoi check
EntryCrnCheckNoAtoi(m) ==
    IF "crn" \notin DOMAIN m THEN [fmt |-> "Field 'crn' is missing", args |-> <<>>]
    ELSE IF m["crn"].t # "string"
         THEN [fmt |-> "Field 'crn' must be a string", args |-> <<>>]
    ELSE [fmt |-> "", args |-> <<>>]

\* the three crn checks of handleRequest, in order; NoErr when all pass
EntryCrnCheck(m) ==
    IF "crn" \notin DOMAIN m THEN Msg("Field 'crn' is missing", <<>>)
    ELSE IF ~IsString(m["crn"]) THEN Msg("Field 'crn' must be a string", <<>>)
    ELSE IF AtoiErr(m["crn"].s)
         THEN Msg("Field 'crn' must contain only numbers", <<>>)
    ELSE NoErr

\* runCurlCommand before checkCertificates: endpoint lookup and the crn
\* checks once more; NoErr when all pass (json.Marshal of a decoded map
\* cannot fail)
BuilderCheck(endpointKey, m) ==
    IF endpointKey \notin DOMAIN endpoints
         THEN Msg("unknown endpoint %s", <<endpointKey>>)
    ELSE IF "crn" \notin DOMAIN m THEN Msg("field 'crn' is missing", <<>>)
    ELSE IF ~IsString(m["crn"]) THEN Msg("field 'crn' must be a string", <<>>)
    ELSE IF AtoiErr(m["crn"].s)
         THEN Msg("field 'crn' must contain only numbers", <<>>)
    ELSE NoErr

\* http.Error(w, fmt.Sprintf("Error processing request: %v", err), 500)
ProcessingError(err) ==
    HttpError(Msg("Error processing request: %v", <<err>>), 500)

\* a step of the handler's log: its name, the status it ended with (a curl
\* exit status, or 2 for a Stat that found nothing) and, for a curl
\* call, the HTTP status the remote service answered with
Ev(name) == [e |-> name, rc |-> 0, http |-> 0]

\* handleRequest from its first line to the first Glob: the responses written,
\* the steps taken, the decoded body and where the handler stands afterwards
Entry(req, endpointKey) ==
    IF MethodRejected(req.method)
    THEN [resp |-> <<[status |-> 405, body |-> MethodNotAllowedBody(req)]>>,
          log |-> <<>>, m |-> EmptyMap, pc |-> "done"]
    ELSE IF req.body.k = "unreadable"
    THEN [resp |-> <<HttpError(Msg("Error reading request body", <<>>), 400)>>,
          log |-> <<Ev("readBody")>>, m |-> EmptyMap, pc |-> "done"]
    ELSE LET u == Unmarshal(req.body)
             e == EntryCrnCheck(u.m)
             b == BuilderCheck(endpointKey, u.m)
         IN  IF u.err
             THEN [resp |-> <<HttpError(Msg("Invalid JSON", <<>>), 400)>>,
                   log |-> <<Ev("readBody")>>, m |-> EmptyMap, pc |-> "done"]
             ELSE IF e # NoErr
             THEN [resp |-> <<HttpError(e, 400)>>,
                   log |-> <<Ev("readBody")>>, m |-> u.m, pc |-> "done"]
             ELSE IF b # NoErr
             THEN [resp |-> <<ProcessingError(b)>>,
                   log |-> <<Ev("readBody"), Ev("runCurlCommand")>>,
                   m |-> u.m, pc |-> "done"]
             ELSE [resp |-> <<>>,
                   log |-> <<Ev("readBody"), Ev("runCurlCommand"),
                             Ev("checkCertificates")>>,
                   m |-> u.m, pc |-> "globCrt"]

----------------------------------------------------------------------------
(* The credential store and findCertificateFiles / checkCertificates *)

\* a file certs/<stem>.<ext>
File(stem, ext) == [dir |-> "certs", stem |-> stem, ext |-> ext]

\* filepath.Match of crn+"*."+ext against a name of certs/: the name starts
\* with crn and ends in "."+ext (a validated crn holds no pattern character
\* and no dot)
Matches(crn, f, ext) == f.ext = ext /\ IsPrefix(crn, f.stem)

RECURSIVE SortedNames(_)
SortedNames(S) ==
    IF S = {} THEN <<>>
    ELSE LET first == CHOOSE x \in S :
                          \A y \in S \ {x} : StrLess(x.stem, y.stem)
         IN  <<first>> \o SortedNames(S \ {first})

\* filepath.Glob(filepath.Join("certs", crn+"*."+ext)): the matching paths,
\* in the sorted order of the directory listing
Glob(st, crn, ext) == SortedNames({f \in st : Matches(crn, f, ext)})

\* a count check that only turns away empty results
CountMismatchLoose(cf, kf) == Len(cf) < 1 \/ Len(kf) < 1

\* len(certFiles) != 1 || len(keyFiles) != 1
CountMismatch(cf, kf) == Len(cf) # 1 \/ Len(kf) # 1

\* _, err := os.Stat(path); os.IsNotExist(err)
IsNotExist(st, path) == path \notin st

----------------------------------------------------------------------------
(* The two curl commands *)

\* exec.Command("curl", "-X", "POST", uploadURL, "-H", ..., "-F", ... x3)
UploadCmd(crn, certPath, keyPath) ==
    [opts |-> <<"-X", "-H", "-F", "-F", "-F">>,
     url  |-> baseURL \o "uploadCertificate",
     form |-> [certificate |-> certPath, key |-> keyPath, crn |-> crn]]

\* exec.Command("curl", "-X", "POST", baseURL+endpoint, "-H", ...,
\*              "--cert", certPath, "--key", keyPath, "-d", jsonBytes)
PrimaryCmd(endpointKey, certPath, keyPath) ==
    [opts |-> <<"-X", "-H", "--cert", "--key", "-d">>,
     url  |-> baseURL \o endpoints[endpointKey],
     cert |-> certPath, key |-> keyPath]

\* curl turns an HTTP status >= 400 into a failure only under -f / --fail
FailsOnHTTPError(cmd) ==
    \E i \in 1..Len(cmd.opts) : cmd.opts[i] \in {"-f", "--fail"}

\* what the curl process ends with, given what happened to its transfer:
\* no answer (exit 7, nothing on stdout), or an answer with a status and body
CurlRun(cmd, remote) ==
    IF remote.kind = "fail" THEN [exit |-> 7, stdout |-> ""]
    ELSE IF FailsOnHTTPError(cmd) /\ remote.status >= 400
         THEN [exit |-> 22, stdout |-> ""]
    ELSE [exit |-> 0, stdout |-> remote.body]

\* an upload whose error is dropped
UploadFailedNever(res) == FALSE

\* output, err := virtualHdm.Output(); err != nil (upload)
UploadFailed(res) == res.exit # 0

\* output, err := virtualHdm.Output(); err != nil (primary call)
PrimaryFailed(res) == res.exit # 0

\* the *exec.ExitError of a process that ended with a nonzero status
ExitError(res) == Msg("exit status %d", <<res.exit>>)

\* a call event of the handler's log
CallEv(name, res, remote) == [e |-> name, rc |-> res.exit, http |-> remote.status]

\* a Stat event of the handler's log
StatEv(name, missing) == [e |-> name, rc |-> IF missing THEN 2 ELSE 0, http |-> 0]

----------------------------------------------------------------------------
(* Inputs *)

Methods == {"POST", "GET", "PUT", "DELETE"}
Paths == DOMAIN Routes

CrnAlphabet == {"1", "a", "+", "-", " "}

\* the crn strings tried: every string up to MaxCrnLen, and the two strings
\* at the edge of the 64-bit range
CrnStrings ==
    UNION {[1..n -> CrnAlphabet] : n \in 0..MaxCrnLen}
    \cup {IntCutoff, <<"-">> \o IntCutoff}

JsonBody(v) == [k |-> "json", v |-> v]
CrnBody(v) == JsonBody(JObj("crn" :> v))

\* bodies that are not an object holding a string crn
OddBodies ==
    {[k |-> "unreadable", v |-> JNull], [k |-> "malformed", v |-> JNull]}
    \cup {JsonBody(v) : v \in {JNull, JArr, JBool, JStr(<<"1">>), JNum(<<"1">>)}}
    \cup {JsonBody(JObj(EmptyMap)), JsonBody(JObj("Crn" :> JStr(<<"1">>)))}
    \cup {CrnBody(v) : v \in {JNull, JBool, JArr, JNum(<<"1">>), JObj(EmptyMap)}}

StringCrnBodies ==
    {CrnBody(JStr(s)) : s \in CrnStrings}
    \cup {JsonBody(JObj(("crn" :> JStr(<<"1">>)) @@ ("amount" :> JNum(<<"5">>))))}

Request(method, path, body) == [method |-> method, path |-> path, body |-> body]

\* every request tried against a single handler
WideRequests ==
    {Request("POST", p, b) : p \in Paths, b \in OddBodies \cup StringCrnBodies}
    \cup {Request(m, p, b) : m \in Methods \ {"POST"}, p \in Paths,
                             b \in {CrnBody(JStr(<<"1">>))}}

\* the requests tried against handlers running at the same time
NarrowRequests ==
    {Request("POST", p, CrnBody(JStr(s))) :
        p \in {"/print", "/uploadCertificate"}, s \in {<<"1">>, <<"1", "a">>}}
    \cup {Request("GET", "/print", CrnBody(JStr(<<"1">>)))}

\* what the remote service, or the network, does to one curl transfer
RemoteOutcomes ==
    {[kind |-> "http", status |-> 200, body |-> "remote body"],
     [kind |-> "http", status |-> 403, body |-> "remote body"],
     [kind |-> "fail", status |-> 0, body |-> ""]}

StoreStems == {<<"1", "a">>, <<"1", "1">>}
FileUniverse == {File(s, e) : s \in StoreStems, e \in {"crt", "key"}}

NoRequest == Request("", "", [k |-> "none", v |-> JNull])

----------------------------------------------------------------------------
(* State machine *)

Init ==
    /\ store \in SUBSET FileUniverse
    /\ changes = 0
    /\ pc = [r \in Reqs |-> "idle"]
    /\ rq = [r \in Reqs |-> NoRequest]
    /\ jsonData = [r \in Reqs |-> EmptyMap]
    /\ certFiles = [r \in Reqs |-> <<>>]
    /\ keyFiles = [r \in Reqs |-> <<>>]
    /\ resp = [r \in Reqs |-> <<>>]
    /\ log = [r \in Reqs |-> <<>>]

\* locals of handler r
EndpointKeyOf(r) == RouteKey(rq[r].path)
CrnOf(r) == jsonData[r]["crn"].s
CertPathOf(r) == certFiles[r][1]
KeyPathOf(r) == keyFiles[r][1]

\* the handler writes a response and, the return missing, goes on to
\* write the success response as well
FinishNoReturn(r, response, events) ==
    /\ resp' = [resp EXCEPT ![r] = @ \o <<response, [status |-> 200, body |-> Msg("%s", <<"">>)]>>]
    /\ log' = [log EXCEPT ![r] = @ \o events]
    /\ pc' = [pc EXCEPT ![r] = "done"]

\* the handler writes a response and returns
Finish(r, response, events) ==
    /\ resp' = [resp EXCEPT ![r] = Append(@, response)]
    /\ log' = [log EXCEPT ![r] = @ \o events]
    /\ pc' = [pc EXCEPT ![r] = "done"]

\* the handler goes on to its next blocking step
Continue(r, next, events) ==
    /\ log' = [log EXCEPT ![r] = @ \o events]
    /\ pc' = [pc EXCEPT ![r] = next]
    /\ UNCHANGED resp

\* a request arrives on one of the routes; handleRequest runs until it
\* answers or until runCurlCommand reaches the first Glob
Serve(r, req) ==
    /\ pc[r] = "idle"
    /\ LET out == Entry(req, RouteKey(req.path))
       IN  /\ rq' = [rq EXCEPT ![r] = req]
           /\ jsonData' = [jsonData EXCEPT ![r] = out.m]
           /\ resp' = [resp EXCEPT ![r] = out.resp]
           /\ log' = [log EXCEPT ![r] = out.log]
           /\ pc' = [pc EXCEPT ![r] = out.pc]
    /\ UNCHANGED <<store, changes, certFiles, keyFiles>>

\* findCertificateFiles: certFiles, err := filepath.Glob(certFileCrt)
GlobCrt(r) ==
    /\ pc[r] = "globCrt"
    /\ certFiles' = [certFiles EXCEPT ![r] = Glob(store, CrnOf(r), "crt")]
    /\ Continue(r, "globKey", <<Ev("globCrt")>>)
    /\ UNCHANGED <<store, changes, rq, jsonData, keyFiles>>

\* findCertificateFiles: keyFiles, err := filepath.Glob(keyFileKey), the
\* count check and the return to checkCertificates
GlobKey(r) ==
    /\ pc[r] = "globKey"
    /\ LET kf == Glob(store, CrnOf(r), "key")
       IN  /\ keyFiles' = [keyFiles EXCEPT ![r] = kf]
           /\ IF CountMismatch(certFiles[r], kf)
              THEN Finish(r, ProcessingError(
                         Msg("certificate or key file not found or multiple files found for crn: %s",
                             <<CrnOf(r)>>)),
                     <<Ev("globKey")>>)
              ELSE Continue(r, "statCert", <<Ev("globKey")>>)
    /\ UNCHANGED <<store, changes, rq, jsonData, certFiles>>

\* checkCertificates: os.Stat(certPath)
StatCert(r) ==
    /\ pc[r] = "statCert"
    /\ IF IsNotExist(store, CertPathOf(r))
       THEN Finish(r, ProcessingError(
                  Msg("certificate file not found: %s", <<CertPathOf(r)>>)),
              <<StatEv("statCert", TRUE)>>)
       ELSE Continue(r, "statKey", <<StatEv("statCert", FALSE)>>)
    /\ UNCHANGED <<store, changes, rq, jsonData, certFiles, keyFiles>>

\* checkCertificates: os.Stat(keyPath), then the upload command is started
StatKey(r) ==
    /\ pc[r] = "statKey"
    /\ IF IsNotExist(store, KeyPathOf(r))
       THEN Finish(r, ProcessingError(
                  Msg("key file not found: %s", <<KeyPathOf(r)>>)),
              <<StatEv("statKey", TRUE)>>)
       ELSE Continue(r, "uploadWait",
              <<StatEv("statKey", FALSE), Ev("uploadIssued")>>)
    /\ UNCHANGED <<store, changes, rq, jsonData, certFiles, keyFiles>>

\* checkCertificates: the upload command ends; on success runCurlCommand
\* starts the command of the operation itself
UploadReturn(r, remote) ==
    /\ pc[r] = "uploadWait"
    /\ LET res == CurlRun(UploadCmd(CrnOf(r), CertPathOf(r), KeyPathOf(r)), remote)
       IN  IF UploadFailed(res)
           THEN Finish(r, ProcessingError(
                      Msg("error uploading certificates: %v\nResponse:\n%s",
                          <<ExitError(res), res.stdout>>)),
                  <<CallEv("uploadReturned", res, remote)>>)
           ELSE Continue(r, "primaryWait",
                  <<CallEv("uploadReturned", res, remote), Ev("primaryIssued")>>)
    /\ UNCHANGED <<store, changes, rq, jsonData, certFiles, keyFiles>>

\* runCurlCommand: the operation's command ends; handleRequest answers
PrimaryReturn(r, remote) ==
    /\ pc[r] = "primaryWait"
    /\ LET res == CurlRun(PrimaryCmd(EndpointKeyOf(r), CertPathOf(r), KeyPathOf(r)),
                          remote)
       IN  IF PrimaryFailed(res)
           THEN Finish(r, ProcessingError(
                      Msg("error in %s: %v\nResponse:\n%s",
                          <<EndpointKeyOf(r), ExitError(res), res.stdout>>)),
                  <<CallEv("primaryReturned", res, remote)>>)
           ELSE Finish(r, [status |-> 200, body |-> Msg("%s", <<res.stdout>>)],
                  <<CallEv("primaryReturned", res, remote)>>)
    /\ UNCHANGED <<store, changes, rq, jsonData, certFiles, keyFiles>>

\* the handler has returned; its goroutine is free for the next request
Close(r) ==
    /\ pc[r] = "done"
    /\ pc' = [pc EXCEPT ![r] = "idle"]
    /\ rq' = [rq EXCEPT ![r] = NoRequest]
    /\ jsonData' = [jsonData EXCEPT ![r] = EmptyMap]
    /\ certFiles' = [certFiles EXCEPT ![r] = <<>>]
    /\ keyFiles' = [keyFiles EXCEPT ![r] = <<>>]
    /\ resp' = [resp EXCEPT ![r] = <<>>]
    /\ log' = [log EXCEPT ![r] = <<>>]
    /\ UNCHANGED <<store, changes>>

\* somebody removes a file from certs/
RemoveFile(f) ==
    /\ changes < MaxStoreChanges
    /\ f \in store
    /\ store' = store \ {f}
    /\ changes' = changes + 1
    /\ UNCHANGED <<pc, rq, jsonData, certFiles, keyFiles, resp, log>>

\* somebody puts a file into certs/
AddFile(f) ==
    /\ changes < MaxStoreChanges
    /\ f \notin store
    /\ store' = store \cup {f}
    /\ changes' = changes + 1
    /\ UNCHANGED <<pc, rq, jsonData, certFiles, keyFiles, resp, log>>

\* one step of handler r after the request was taken
Step(r) ==
    \/ GlobCrt(r)
    \/ GlobKey(r)
    \/ StatCert(r)
    \/ StatKey(r)
    \/ \E remote \in RemoteOutcomes : UploadReturn(r, remote)
    \/ \E remote \in RemoteOutcomes : PrimaryReturn(r, remote)

StoreChange == \E f \in FileUniverse : RemoveFile(f) \/ AddFile(f)

\* handlers running at the same time
Next ==
    \/ \E r \in Reqs : \E req \in NarrowRequests : Serve(r, req)
    \/ \E r \in Reqs : Step(r)
    \/ \E r \in Reqs : Close(r)
    \/ StoreChange

Spec == Init /\ [][Next]_vars

\* handlers are scheduled, and every curl process ends
FairSpec == Spec /\ \A r \in Reqs : WF_vars(Step(r))

\* one handler, every request of WideRequests
NextOne ==
    \/ \E req \in WideRequests : Serve("r1", req)
    \/ Step("r1")
    \/ Close("r1")
    \/ StoreChange

SpecOne == Init /\ [][NextOne]_vars

----------------------------------------------------------------------------
(* Vocabulary of the properties *)

Has(r, name) == \E i \in 1..Len(log[r]) : log[r][i].e = name
Count(r, name) == Cardinality({i \in 1..Len(log[r]) : log[r][i].e = name})
Done(r) == pc[r] = "done"
Answered(r, code) == Done(r) /\ Len(resp[r]) = 1 /\ resp[r][1].status = code

\* the handler never entered checkCertificates and started no curl command
NoResolutionNoCalls(r) ==
    /\ ~Has(r, "checkCertificates")
    /\ ~Has(r, "globCrt") /\ ~Has(r, "globKey")
    /\ ~Has(r, "uploadIssued") /\ ~Has(r, "primaryIssued")

NoCalls(r) == ~Has(r, "uploadIssued") /\ ~Has(r, "primaryIssued")

Is2xx(code) == code >= 200 /\ code <= 299

\* the error wrapped by "Error processing request: %v"
InnerErr(r) == resp[r][1].body.args[1]

----------------------------------------------------------------------------
(* C1 *)

----------------------------------------------------------------------------
(* C2 *)

\* the body is malformed JSON, or JSON without a "crn" key, or JSON whose
\* "crn" is not a string
LacksStringCrn(body) ==
    \/ body.k = "malformed"
    \/ /\ body.k = "json"
       /\ \/ body.v.t # "object"
          \/ "crn" \notin DOMAIN body.v.m
          \/ body.v.m["crn"].t # "string"

\* C2: a POST request whose body is malformed JSON, lacks "crn" or has a
\* "crn" that is not a string is answered 400, and the handler never
\* enters credential resolution and starts no curl command for it.
C2_BadBodyIs400 ==
    \A r \in Reqs :
        (rq[r].method = "POST" /\ LacksStringCrn(rq[r].body)) =>
            Answered(r, 400) /\ NoResolutionNoCalls(r)

\* a request whose crn is the JSON number 1 was answered
C2_Witness ==
    \E r \in Reqs :
        /\ rq[r].method = "POST"
        /\ rq[r].body = CrnBody(JNum(<<"1">>))
        /\ Answered(r, 400)

----------------------------------------------------------------------------
(* C3 *)

HasStringCrn(body) ==
    /\ body.k = "json"
    /\ body.v.t = "object"
    /\ "crn" \in DOMAIN body.v.m
    /\ body.v.m["crn"].t = "string"

HasNonDigit(s) == \E i \in 1..Len(s) : s[i] \notin Digits

\* C3: a POST request whose "crn" string holds a character that is not a
\* digit is answered 400, with no credential resolution and no curl command.
C3_NonDigitIs400 ==
    \A r \in Reqs :
        (/\ rq[r].method = "POST"
         /\ HasStringCrn(rq[r].body)
         /\ HasNonDigit(rq[r].body.v.m["crn"].s)) =>
            Answered(r, 400) /\ NoResolutionNoCalls(r)

----------------------------------------------------------------------------
(* C4 *)

\* credential resolution of handler r is over: both Globs ran and the
\* handler is not between the count check and the end of the two Stats
ResolutionOver(r) == Has(r, "globKey") /\ pc[r] \notin {"statCert", "statKey"}

\* resolution gave checkCertificates a pair of paths to upload
Resolved(r) == Has(r, "uploadIssued")

OneOfEach(r) == Len(certFiles[r]) = 1 /\ Len(keyFiles[r]) = 1

StatMissed(r) ==
    \E i \in 1..Len(log[r]) : log[r][i].e \in {"statCert", "statKey"} /\ log[r][i].rc # 0

\* C4 as stated: resolution succeeds exactly when one certificate and one
\* key match.
C4_Original ==
    \A r \in Reqs : ResolutionOver(r) => (Resolved(r) <=> OneOfEach(r))

\* C4 amended: resolution succeeds, with the two matching paths, exactly
\* when one certificate and one key match and neither is found missing by
\* the Stat that follows; with any other count the request ends 500 with
\* the error naming the crn, with a path found missing it ends 500 with the
\* error naming that path, and in both cases no curl command is started.
C4_Amended ==
    \A r \in Reqs : ResolutionOver(r) =>
        /\ Resolved(r) <=> (OneOfEach(r) /\ ~StatMissed(r))
        /\ Resolved(r) =>
              /\ Matches(CrnOf(r), CertPathOf(r), "crt")
              /\ Matches(CrnOf(r), KeyPathOf(r), "key")
        /\ ~OneOfEach(r) =>
              /\ Answered(r, 500)
              /\ InnerErr(r).fmt =
                   "certificate or key file not found or multiple files found for crn: %s"
              /\ InnerErr(r).args = <<CrnOf(r)>>
              /\ NoCalls(r)
        /\ (OneOfEach(r) /\ StatMissed(r)) =>
              /\ Answered(r, 500)
              /\ \/ /\ InnerErr(r).fmt = "certificate file not found: %s"
                    /\ InnerErr(r).args = <<CertPathOf(r)>>
                 \/ /\ InnerErr(r).fmt = "key file not found: %s"
                    /\ InnerErr(r).args = <<KeyPathOf(r)>>
              /\ NoCalls(r)

\* two certificates matched and the request was turned away
C4_Witness ==
    \E r \in Reqs :
        /\ ResolutionOver(r)
        /\ Len(certFiles[r]) = 2
        /\ Len(keyFiles[r]) = 1
        /\ Answered(r, 500)

----------------------------------------------------------------------------
(* C5 *)

\* the operation's command ended in a transport failure, or the remote
\* service answered it with a status outside 2xx
PrimaryCallFailed(r) ==
    \E i \in 1..Len(log[r]) :
        /\ log[r][i].e = "primaryReturned"
        /\ (log[r][i].rc # 0 \/ ~Is2xx(log[r][i].http))

\* C5: when the operation's call fails, by transport failure or by a
\* non-2xx answer, the request ends 500 with an error holding the operation
\* name and the captured remote body; 200 is answered only when the remote
\* call succeeded.
C5_PrimaryFailureIs500 ==
    \A r \in Reqs :
        /\ PrimaryCallFailed(r) =>
              /\ Answered(r, 500)
              /\ InnerErr(r).fmt = "error in %s: %v\nResponse:\n%s"
              /\ InnerErr(r).args[1] = EndpointKeyOf(r)
        /\ Answered(r, 200) => ~PrimaryCallFailed(r)

----------------------------------------------------------------------------
(* C6 *)

\* the upload command ended in a transport failure, or the remote service
\* turned the upload down with a status outside 2xx
UploadStepFailed(r) ==
    \E i \in 1..Len(log[r]) :
        /\ log[r][i].e = "uploadReturned"
        /\ (log[r][i].rc # 0 \/ ~Is2xx(log[r][i].http))

\* C6: when the upload step fails, the remote service turning the upload
\* down included, the request ends 500 and the operation's command is never
\* started.
C6_UploadFailureAborts ==
    \A r \in Reqs :
        UploadStepFailed(r) => Answered(r, 500) /\ ~Has(r, "primaryIssued")

----------------------------------------------------------------------------
(* C7 *)

\* C7: a request with any method but POST, on any of the nine routes, is
\* answered 405 with a JSON object whose status is 405 and whose path is the
\* request path; the body is not read and the handler enters no credential
\* resolution and starts no curl command.
C7_NonPostIs405 ==
    \A r \in Reqs :
        (pc[r] # "idle" /\ rq[r].method # "POST") =>
            /\ Answered(r, 405)
            /\ resp[r][1].body.status = 405
            /\ resp[r][1].body.path = rq[r].path
            /\ ~Has(r, "readBody")
            /\ NoResolutionNoCalls(r)

\* a DELETE on /getGoodList was answered
C7_Witness ==
    \E r \in Reqs :
        /\ rq[r].method = "DELETE"
        /\ rq[r].path = "/getGoodList"
        /\ Answered(r, 405)

----------------------------------------------------------------------------
(* C8 *)

\* C8: the message of the 405 payload names the method that was turned
\* away.
C8_MessageNamesMethod ==
    \A r \in Reqs :
        Answered(r, 405) =>
            resp[r][1].body.message =
                <<"Request method '", rq[r].method, "' not supported">>

----------------------------------------------------------------------------
(* C9 *)

\* a curl command of handler r ended with an error, or a step of credential
\* resolution failed
FailedAt(r, i) ==
    \/ log[r][i].e \in {"uploadReturned", "primaryReturned"} /\ log[r][i].rc # 0
    \/ log[r][i].e \in {"statCert", "statKey"} /\ log[r][i].rc # 0

\* one round trip: each command at most once, nothing started after a
\* failure, no response before the handler is done and exactly one, with a
\* status of 200, 400, 405 or 500, when it is
SingleRoundTrip(r) ==
    /\ Count(r, "uploadIssued") <= 1
    /\ Count(r, "primaryIssued") <= 1
    /\ Count(r, "uploadReturned") <= Count(r, "uploadIssued")
    /\ Count(r, "primaryReturned") <= Count(r, "primaryIssued")
    /\ \A i \in 1..Len(log[r]) :
           FailedAt(r, i) =>
               \A j \in (i+1)..Len(log[r]) :
                   log[r][j].e \notin {"uploadIssued", "primaryIssued"}
    /\ Done(r) => Len(resp[r]) = 1 /\ resp[r][1].status \in {200, 400, 405, 500}
    /\ ~Done(r) => resp[r] = <<>>

----------------------------------------------------------------------------
(* C10 *)

BuilderErrors ==
    {"unknown endpoint %s", "JSON encoding error: %v", "field 'crn' is missing",
     "field 'crn' must be a string", "field 'crn' must contain only numbers"}

\* C10: for a request that reaches runCurlCommand through one of the nine
\* routes, the checks of runCurlCommand itself never fail: the handler
\* always goes on to checkCertificates, and no 500 carries "unknown
\* endpoint" or one of the second crn errors.
C10_BuilderChecksPass ==
    \A r \in Reqs :
        /\ Has(r, "runCurlCommand") => Has(r, "checkCertificates")
        /\ Answered(r, 500) => InnerErr(r).fmt \notin BuilderErrors

\* a request went through runCurlCommand's checks and ended 500 in
\* credential resolution
C10_Witness ==
    \E r \in Reqs :
        /\ rq[r].path = "/printCopy"
        /\ Has(r, "checkCertificates")
        /\ Answered(r, 500)
        /\ ~Has(r, "uploadIssued")

====
